---- MODULE Spec2Model ----
(***************************************************************************)
(* A model of the AuraSync backend (src/main.py, src/fallback_models.py,   *)
(* src/model_downloader.py): the recommendation composer, the product      *)
(* filter and its endpoints, the weighted sampler, the fallback providers, *)
(* the skin colour synthesizer, the analysis endpoints and the start-up    *)
(* model download.                                                         *)
(*                                                                         *)
(* Python str values that the code inspects character by character         *)
(* (lower(), upper(), the `in` substring test) are sequences of            *)
(* one-character strings; the fixed texts the code only concatenates are   *)
(* TLA+ strings.  Real-valued weights and random draws are exact           *)
(* rationals over integers (floating-point rounding is not modelled).      *)
(***************************************************************************)
EXTENDS Integers, Sequences, FiniteSets, TLC

VARIABLES
    pc,                 \* position of the single call of the pure-function specifications
    \* ---- generate_recommendation (src/main.py)
    body_type, face_shape, mbti, skin_tone,     \* the arguments
    parts,              \* the local list `parts`
    full_rec,           \* the returned text
    \* ---- the product catalog and its endpoints (src/main.py)
    PRODUCTS,           \* the module-level catalog list
    inflight,           \* product_recommendations requests suspended in `await request.json()`
    response,           \* the last value returned by a product operation
    \* ---- weighted_random_selection (src/fallback_models.py)
    items_with_weights, \* the argument table
    selection,          \* the outcome of the call
    \* ---- fallback_body_shape_analysis (src/fallback_models.py)
    gender,             \* the argument
    body_result,        \* the outcome of the call
    \* ---- generate_realistic_skin_rgb (src/fallback_models.py)
    tone, undertone,    \* the arguments
    rgb_draw,           \* the three random.randint draws
    rgb,                \* the outcome of the call
    \* ---- the analysis endpoints (src/main.py)
    CV2_AVAILABLE, MODELS_AVAILABLE,    \* the module-level availability flags
    analysis,           \* the outcome of the last analysis request
    \* ---- check_and_download_models (src/model_downloader.py)
    USE_FALLBACK,       \* the module-level setting
    environ,            \* os.environ, restricted to the variables of MODEL_URLS_ENV
    fs,                 \* what the file system holds at each model path
    missing_models,     \* the local list `missing_models`, the processed entries removed
    returned,           \* the outcome of the call
    download_log        \* the download_file calls made and their results

vars == <<pc, body_type, face_shape, mbti, skin_tone, parts, full_rec,
          PRODUCTS, inflight, response, items_with_weights, selection,
          gender, body_result, tone, undertone, rgb_draw, rgb,
          CV2_AVAILABLE, MODELS_AVAILABLE, analysis,
          USE_FALLBACK, environ, fs, missing_models, returned, download_log>>

recVars     == <<body_type, face_shape, mbti, skin_tone, parts, full_rec>>
productVars == <<PRODUCTS, inflight, response>>
samplerVars == <<items_with_weights, selection>>
bodyVars    == <<gender, body_result>>
rgbVars     == <<tone, undertone, rgb_draw, rgb>>
analyzeVars == <<CV2_AVAILABLE, MODELS_AVAILABLE, analysis>>
downloadVars == <<USE_FALLBACK, environ, fs, missing_models, returned, download_log>>

(***************************************************************************)
(* Python strings                                                          *)
(***************************************************************************)
UpperChars == <<"A","B","C","D","E","F","G","H","I","J","K","L","M",
                "N","O","P","Q","R","S","T","U","V","W","X","Y","Z">>
LowerChars == <<"a","b","c","d","e","f","g","h","i","j","k","l","m",
                "n","o","p","q","r","s","t","u","v","w","x","y","z">>

\* All sequences over alphabet A of length 0..n.
RECURSIVE SeqsUpTo(_, _)
SeqsUpTo(A, n) ==
    IF n = 0 THEN {<<>>}
    ELSE LET shorter == SeqsUpTo(A, n - 1)
         IN  shorter \cup {Append(s, c) : s \in {t \in shorter : Len(t) = n - 1}, c \in A}

\* The cased letters: upper-case letter |-> its lower-case letter, and back.
to_lower == [c \in {UpperChars[i] : i \in 1..Len(UpperChars)} |->
                LowerChars[CHOOSE i \in 1..Len(UpperChars) : UpperChars[i] = c]]
to_upper == [c \in {LowerChars[i] : i \in 1..Len(LowerChars)} |->
                UpperChars[CHOOSE i \in 1..Len(LowerChars) : LowerChars[i] = c]]

lower_char(c) == IF c \in DOMAIN to_lower THEN to_lower[c] ELSE c
upper_char(c) == IF c \in DOMAIN to_upper THEN to_upper[c] ELSE c

\* str.lower() and str.upper()
str_lower(s) == [i \in 1..Len(s) |-> lower_char(s[i])]
str_upper(s) == [i \in 1..Len(s) |-> upper_char(s[i])]

\* `sub in s`
str_contains(s, sub) ==
    \E i \in 1..(Len(s) - Len(sub) + 1) : SubSeq(s, i, i + Len(sub) - 1) = sub

\* The text of a character sequence.
RECURSIVE Text(_)
Text(s) == IF s = <<>> THEN "" ELSE Head(s) \o Text(Tail(s))

\* sep.join(list)
RECURSIVE str_join(_, _)
str_join(sep, list) ==
    IF list = <<>> THEN ""
    ELSE IF Len(list) = 1 THEN list[1]
    ELSE list[1] \o sep \o str_join(sep, Tail(list))

(***************************************************************************)
(* generate_recommendation                                                 *)
(***************************************************************************)
PERSONALITY_STYLES ==
    "ISTJ" :> "Classic and traditional styles with high-quality fabrics and timeless designs." @@
    "ISFJ" :> "Comfortable, practical clothing with soft fabrics and subtle patterns." @@
    "INFJ" :> "Minimalist designs with artistic touches and unique accessories." @@
    "INTJ" :> "Sophisticated, sleek styles with clean lines and intellectual appeal." @@
    "ISTP" :> "Functional, durable clothes with a casual edge and practical features." @@
    "ISFP" :> "Artistic, bohemian looks with unique textures and experimental combinations." @@
    "INFP" :> "Romantic, whimsical styles with soft layers and personal meaning." @@
    "INTP" :> "Unconventional, comfortable clothing with intellectual or nerdy references." @@
    "ESTP" :> "Bold, trendy pieces that make a statement and show confidence." @@
    "ESFP" :> "Fun, vibrant outfits with attention-grabbing colors and playful accessories." @@
    "ENFP" :> "Eclectic, creative ensembles with mixed patterns and expressive elements." @@
    "ENTP" :> "Smart-casual looks with unexpected twists and conversation starters." @@
    "ESTJ" :> "Professional, structured outfits with perfect coordination and attention to detail." @@
    "ESFJ" :> "Polished, put-together ensembles that follow current trends appropriately." @@
    "ENFJ" :> "Warm, approachable styles with harmonious colors and elegant touches." @@
    "ENTJ" :> "Power dressing with sharp tailoring and status-signaling elements."

body_recs ==
    "hourglass" :> "Embrace fitted styles that highlight your balanced proportions. Wrap dresses and belted jackets work especially well for your figure." @@
    "rectangle" :> "Create curves with peplum tops, layered outfits, and statement belts to define your waist." @@
    "triangle" :> "Balance your proportions with structured tops, wider necklines, and A-line skirts or dresses." @@
    "inverted triangle" :> "Balance your broader shoulders with full skirts, wide-leg pants, and details at the hip area." @@
    "oval" :> "Define your waistline with empire waists and vertical patterns. V-necks and A-line silhouettes are particularly flattering."

body_default == "Choose styles that enhance your unique body shape."

face_recs ==
    "oval" :> "You can wear most styles. Experiment with different necklines and accessories." @@
    "round" :> "Create length with V-necks, long earrings, and hairstyles with height." @@
    "square" :> "Soften your angles with round necklines and curved accessories." @@
    "heart" :> "Balance your wider forehead with wider bottoms and choker necklaces." @@
    "diamond" :> "Highlight your cheekbones with earrings and avoid oversized eyewear." @@
    "rectangle" :> "Soften your jawline with round necklines and curved accessories."

face_default == "Select necklines and accessories that complement your face shape."

fair_skin   == "With your fair skin, jewel tones like emerald, sapphire, and ruby will create stunning contrast. Soft pastels also complement your complexion beautifully."
medium_skin == "Your medium skin tone works well with both warm and cool colors. Rich hues like olive green, teal, and coral pink are particularly flattering."
olive_skin  == "Your olive skin tone is complemented by earthy colors like terracotta, mustard, and olive green, as well as vibrant jewel tones."
deep_skin   == "Your deep skin tone is enhanced by bright, vibrant colors and rich jewel tones. White and cream create beautiful contrast."

generic_rec == "Based on your unique characteristics, we recommend exploring styles that express your individuality while enhancing your natural features. Consider consulting with a personal stylist for more tailored advice."

\* dict.get(key, default)
dict_get_no_default(d, key, default) == IF key \in DOMAIN d THEN d[key] ELSE "None"

dict_get(d, key, default) == IF key \in DOMAIN d THEN d[key] ELSE default

\* The if/elif chain over the raw skin_tone string.
skin_rec_reordered(s) ==
    IF str_contains(s, <<"I","I","I">>) THEN medium_skin
    ELSE IF str_contains(s, <<"I","V">>) THEN olive_skin
    ELSE IF str_contains(s, <<"I">>) \/ str_contains(s, <<"I","I">>) THEN fair_skin
    ELSE deep_skin

skin_rec(s) ==
    IF str_contains(s, <<"I">>) \/ str_contains(s, <<"I","I">>) THEN fair_skin
    ELSE IF str_contains(s, <<"I","I","I">>) THEN medium_skin
    ELSE IF str_contains(s, <<"I","V">>) THEN olive_skin
    ELSE deep_skin

personality_rec(m) ==
    "Your " \o Text(str_upper(m)) \o " personality suggests: "
            \o PERSONALITY_STYLES[Text(str_upper(m))]

\* The list `parts` after the four appends, in the order of the code.
rec_parts_skin_first(b, f, m, s) ==
    (IF s # <<>> THEN <<skin_rec(s)>> ELSE <<>>)
    \o (IF b # <<>> THEN <<dict_get(body_recs, Text(str_lower(b)), body_default)>> ELSE <<>>)
    \o (IF f # <<>> THEN <<dict_get(face_recs, Text(str_lower(f)), face_default)>> ELSE <<>>)
    \o (IF m # <<>> /\ Text(str_upper(m)) \in DOMAIN PERSONALITY_STYLES
        THEN <<personality_rec(m)>> ELSE <<>>)

rec_parts(b, f, m, s) ==
    (IF b # <<>> THEN <<dict_get(body_recs, Text(str_lower(b)), body_default)>> ELSE <<>>)
    \o (IF f # <<>> THEN <<dict_get(face_recs, Text(str_lower(f)), face_default)>> ELSE <<>>)
    \o (IF s # <<>> THEN <<skin_rec(s)>> ELSE <<>>)
    \o (IF m # <<>> /\ Text(str_upper(m)) \in DOMAIN PERSONALITY_STYLES
        THEN <<personality_rec(m)>> ELSE <<>>)

\* The text returned for the list `parts`.
combine_join_only(list) == str_join(" ", list)

combine(list) == IF list # <<>> THEN str_join(" ", list) ELSE generic_rec

\* ---- inputs
MaxSkinLen == 3
SkinAlphabet == {"I", "V", "i", "T"}

TypeI   == <<"T","y","p","e"," ","I"," ","-"," ","V","e","r","y"," ","f","a","i","r">>
TypeII  == <<"T","y","p","e"," ","I","I"," ","-"," ","F","a","i","r">>
TypeIII == <<"T","y","p","e"," ","I","I","I"," ","-"," ","M","e","d","i","u","m">>
TypeIV  == <<"T","y","p","e"," ","I","V"," ","-"," ","O","l","i","v","e">>
TypeV   == <<"T","y","p","e"," ","V"," ","-"," ","B","r","o","w","n">>
TypeVI  == <<"T","y","p","e"," ","V","I"," ","-"," ","D","a","r","k"," ","b","r","o","w","n"," ","t","o"," ","b","l","a","c","k">>

\* The labels fallback_skin_tone_analysis emits.
skin_tones == <<TypeI, TypeII, TypeIII, TypeIV, TypeV, TypeVI>>

SkinToneInputs == SeqsUpTo(SkinAlphabet, MaxSkinLen) \cup {skin_tones[i] : i \in 1..Len(skin_tones)}
BodyTypeInputs == {<<>>, <<"h","o","u","r","g","l","a","s","s">>, <<"O","V","A","L">>, <<"p","e","a","r">>}
FaceShapeInputs == {<<>>, <<"r","o","u","n","d">>, <<"O","v","a","l">>, <<"l","o","n","g">>}
MbtiInputs == {<<>>, <<"I","N","T","J">>, <<"e","n","F","p">>, <<"a","b","c","d">>}

RecIdle ==
    /\ body_type = <<>> /\ face_shape = <<>> /\ mbti = <<>> /\ skin_tone = <<>>
    /\ parts = <<>> /\ full_rec = ""

RecInit ==
    /\ body_type \in BodyTypeInputs
    /\ face_shape \in FaceShapeInputs
    /\ mbti \in MbtiInputs
    /\ skin_tone \in SkinToneInputs
    /\ parts = <<>>
    /\ full_rec = ""

generate_recommendation ==
    /\ pc = "call"
    /\ parts' = rec_parts(body_type, face_shape, mbti, skin_tone)
    /\ full_rec' = combine(parts')
    /\ pc' = "done"
    /\ UNCHANGED <<body_type, face_shape, mbti, skin_tone>>

(***************************************************************************)
(* The product catalog: filter_products, product_recommendations,          *)
(* get_products                                                            *)
(*                                                                         *)
(* Python lists are objects: a heap is a sequence of lists, a name is      *)
(* bound to an address of the heap.  Address 1 holds the list the global   *)
(* PRODUCTS is bound to, so that an in-place operation on an alias of it   *)
(* shows in PRODUCTS.                                                      *)
(***************************************************************************)
MinProducts == 3
TopProducts == 6

MaxCatalog == 4
MaxShared == 3
ProductGenders == {<<"M","a","l","e">>, <<"f","e","m","a","l","e">>}
GenderArgs == {<<>>, <<"M","A","L","E">>, <<"f","e","m","a","l","e">>}
Limits == {0, 2, 10}
Requests == {"r1", "r2"}

\* The rows csv.DictReader yields: one mapping per row.
CatalogsUpTo(n) ==
    {[i \in 1..Len(gs) |-> [id |-> i, gender |-> gs[i]]] : gs \in SeqsUpTo(ProductGenders, n)}
Catalogs == CatalogsUpTo(MaxCatalog)
SharedCatalogs == CatalogsUpTo(MaxShared)

\* Catalogs of one product fewer than, as many as and one more than the page of
\* product_recommendations: j products of one gender, then products of the other.
PageCatalogs ==
    {[i \in 1..n |-> [id |-> i,
                      gender |-> IF i <= j THEN <<"M","a","l","e">> ELSE <<"f","e","m","a","l","e">>]] :
        n \in {TopProducts - 1, TopProducts, TopProducts + 1}, j \in 0..(TopProducts + 1)}

\* list.copy(): a new list object holding the same elements.
list_alias(heap, a) == [heap |-> heap, at |-> a]

list_copy(heap, a) == [heap |-> Append(heap, heap[a]), at |-> Len(heap) + 1]

\* A list comprehension: a new list object.
list_new(heap, elems) == [heap |-> Append(heap, elems), at |-> Len(heap) + 1]

\* random.shuffle(x): reorders the list object in place.
list_shuffle(heap, a, perm) ==
    [heap EXCEPT ![a] = [i \in 1..Len(heap[a]) |-> heap[a][perm[i]]]]

\* list[:n]
list_head_all(list, n) == list

list_head(list, n) ==
    IF n >= 0 THEN SubSeq(list, 1, IF n < Len(list) THEN n ELSE Len(list))
    ELSE SubSeq(list, 1, Len(list) + n)

\* p.get("gender", "").lower() == gender.lower()
gender_matches_exact(p, g) == dict_get(p, "gender", <<>>) = g

gender_matches(p, g) == str_lower(dict_get(p, "gender", <<>>)) = str_lower(g)

\* filter_products up to the shuffle: the heap and the address `filtered` is bound to.
filter_select(heap, g) ==
    LET c0 == list_copy(heap, 1)
        c1 == IF g # <<>>
              THEN list_new(c0.heap, SelectSeq(c0.heap[c0.at], LAMBDA p : gender_matches(p, g)))
              ELSE c0
        c2 == IF Len(c1.heap[c1.at]) < MinProducts THEN list_copy(c1.heap, 1) ELSE c1
    IN  c2

NoResponse == [op |-> "none", gender |-> <<>>, products |-> <<>>, count |-> 0]

ProductIdle ==
    /\ PRODUCTS = <<>>
    /\ inflight = [r \in Requests |-> FALSE]
    /\ response = NoResponse

\* PRODUCTS = load_products(), once, at import.
load_products(catalogs) ==
    /\ PRODUCTS \in catalogs
    /\ inflight = [r \in Requests |-> FALSE]
    /\ response = NoResponse

\* A call filter_products(gender, body_type, skin_tone, mbti); only gender is read.
filter_products ==
    \E g \in GenderArgs :
        LET c == filter_select(<<PRODUCTS>>, g)
        IN  \E perm \in Permutations(1..Len(c.heap[c.at])) :
                LET heap == list_shuffle(c.heap, c.at, perm)
                IN  /\ PRODUCTS' = heap[1]
                    /\ response' = [op |-> "filter_products", gender |-> g,
                                    products |-> heap[c.at], count |-> Len(heap[c.at])]
                    /\ UNCHANGED inflight

\* product_recommendations up to its suspension in `data = await request.json()`.
product_recommendations_await(r) ==
    /\ ~inflight[r]
    /\ inflight' = [inflight EXCEPT ![r] = TRUE]
    /\ UNCHANGED <<PRODUCTS, response>>

\* product_recommendations from its resumption with the request's data to the return.
product_recommendations(r) ==
    /\ inflight[r]
    /\ \E data_gender \in GenderArgs :
        LET g == str_lower(data_gender)
            c == filter_select(<<PRODUCTS>>, g)
        IN  \E perm \in Permutations(1..Len(c.heap[c.at])) :
                LET heap == list_shuffle(c.heap, c.at, perm)
                IN  /\ PRODUCTS' = heap[1]
                    /\ response' = [op |-> "product_recommendations", gender |-> g,
                                    products |-> list_head(heap[c.at], TopProducts),
                                    count |-> Len(heap[c.at])]
    /\ inflight' = [inflight EXCEPT ![r] = FALSE]

\* get_products(gender, limit): no await between the entry and the return.
get_products ==
    \E g \in GenderArgs, limit \in Limits :
        LET heap0 == <<PRODUCTS>>
            c == IF g # <<>>
                 THEN list_new(heap0, SelectSeq(heap0[1], LAMBDA p : gender_matches(p, g)))
                 ELSE [heap |-> heap0, at |-> 1]
        IN  /\ PRODUCTS' = c.heap[1]
            /\ response' = [op |-> "get_products", gender |-> g,
                            products |-> list_head(c.heap[c.at], limit),
                            count |-> Len(c.heap[c.at])]
            /\ UNCHANGED inflight

(***************************************************************************)
(* weighted_random_selection                                               *)
(*                                                                         *)
(* A real number is a fraction [num, den] of integers, den # 0.  A draw    *)
(* of random.random() is k / DrawSteps for a k in 0..DrawSteps-1.          *)
(***************************************************************************)
DrawSteps == 20
MaxTable == 3
MaxWeight == 2
SampleLabels == {"a", "b"}

Draws == 0..(DrawSteps - 1)
Tables == SeqsUpTo(SampleLabels \X ((0 - 1)..MaxWeight), MaxTable)

frac(n, d) == [num |-> n, den |-> d]
frac_less(x, y) ==
    IF x.den * y.den > 0 THEN x.num * y.den < y.num * x.den
    ELSE x.num * y.den > y.num * x.den
frac_positive(x) == x.num * x.den > 0

RECURSIVE sum(_)
sum(ws) == IF ws = <<>> THEN 0 ELSE Head(ws) + sum(Tail(ws))

\* bisect.bisect_right(a, x, lo, hi), on 0-based positions.
RECURSIVE bisect(_, _, _, _)
bisect(a, x, lo, hi) ==
    IF lo < hi
    THEN LET mid == (lo + hi) \div 2
         IN  IF frac_less(x, a[mid + 1]) THEN bisect(a, x, lo, mid)
             ELSE bisect(a, x, mid + 1, hi)
    ELSE lo

Raised(e)   == [status |-> "raise", error |-> e, label |-> "", normalized_weights |-> <<>>]
Returned(l, nw) == [status |-> "return", error |-> "", label |-> l, normalized_weights |-> nw]

\* random.choices(population, weights, k=1), then the element at 0-based position `at`
\* of the list of k = 1 draws; every weight is a fraction over the same denominator.
choices_item(population, weights, k, at) ==
    LET n     == Len(population)
        d     == weights[1].den
        cum_weights == [i \in 1..n |-> frac(sum([j \in 1..i |-> weights[j].num]), d)]
        total == cum_weights[n]
    IN  IF ~frac_positive(total) THEN Raised("ValueError")
        ELSE IF at # 0 THEN Raised("IndexError")
        ELSE LET x == frac(k * total.num, DrawSteps * total.den)
             IN  Returned(population[bisect(cum_weights, x, 0, n - 1) + 1], weights)

\* The body of weighted_random_selection, returning element `at` of the draws.
selection_at(table, k, at) ==
    IF table = <<>> THEN Raised("ValueError")
    ELSE LET items   == [i \in 1..Len(table) |-> table[i][1]]
             weights == [i \in 1..Len(table) |-> table[i][2]]
             total   == sum(weights)
         IN  IF total = 0 THEN Raised("ZeroDivisionError")
             ELSE choices_item(items, [i \in 1..Len(weights) |-> frac(weights[i], total)], k, at)

weighted_random_selection_second(table, k) == selection_at(table, k, 1)

weighted_random_selection(table, k) == selection_at(table, k, 0)

NoSelection == [status |-> "none", error |-> "", label |-> "", normalized_weights |-> <<>>]

SamplerIdle == items_with_weights = <<>> /\ selection = NoSelection

SamplerInit == items_with_weights \in Tables /\ selection = NoSelection

select ==
    /\ pc = "call"
    /\ \E k \in Draws : selection' = weighted_random_selection(items_with_weights, k)
    /\ pc' = "done"
    /\ UNCHANGED items_with_weights

(***************************************************************************)
(* fallback_body_shape_analysis                                            *)
(*                                                                         *)
(* Weights are in hundredths, confidences in thousandths.  A Python value  *)
(* is a record of its type and its value.                                  *)
(***************************************************************************)
ConfSteps == 2
MaxGenderLen == 4
GenderAlphabet == {"m", "M", "a", "l", "e"}

PyNone   == [type |-> "NoneType", value |-> <<>>]
PyStr(s) == [type |-> "str", value |-> s]

BodyGenders ==
    {PyNone} \cup
    {PyStr(s) : s \in SeqsUpTo(GenderAlphabet, MaxGenderLen)
                      \cup {<<"M","A","L","E">>, <<"f","e","m","a","l","e">>,
                            <<"F","e","m","a","l","e">>, <<" ","m","a","l","e">>}}

male_body_shapes ==
    << <<"Trapezoid", 30>>, <<"Rectangle", 25>>, <<"Triangle", 20>>,
       <<"Oval", 15>>, <<"Inverted Triangle", 10>> >>

female_body_shapes ==
    << <<"Hourglass", 25>>, <<"Rectangle", 25>>, <<"Pear", 20>>,
       <<"Apple", 15>>, <<"Inverted Triangle", 15>> >>

\* random.uniform(a, b): a + (b - a) * random(), the draw being k / ConfSteps.
uniform_sum(a, b, k) == frac(a * ConfSteps + b * k, 1000 * ConfSteps)

uniform(a, b, k) == frac(a * ConfSteps + (b - a) * k, 1000 * ConfSteps)

\* gender.lower() in ["male", "m"]
is_male_exact(g) == Text(g) \in {"male", "m"}

is_male(g) == Text(str_lower(g)) \in {"male", "m"}

NoBody == [status |-> "none", error |-> "", body_type |-> "", confidence |-> frac(0, 1),
           using_fallback |-> FALSE]

\* The measurements (five independent random.uniform draws) are not part of the model.
fallback_body_shape_analysis(g, k, c) ==
    IF g.type # "str"
    THEN [NoBody EXCEPT !.status = "raise", !.error = "AttributeError"]
    ELSE LET body_shapes == IF is_male(g.value) THEN male_body_shapes ELSE female_body_shapes
             selected == weighted_random_selection(body_shapes, k)
         IN  IF selected.status = "raise"
             THEN [NoBody EXCEPT !.status = "raise", !.error = selected.error]
             ELSE [status |-> "return", error |-> "", body_type |-> selected.label,
                   confidence |-> uniform(800, 950, c), using_fallback |-> TRUE]

BodyIdle == gender = PyNone /\ body_result = NoBody

BodyInit == gender \in BodyGenders /\ body_result = NoBody

body_analysis ==
    /\ pc = "call"
    /\ \E k \in Draws, c \in 0..(ConfSteps - 1) :
           body_result' = fallback_body_shape_analysis(gender, k, c)
    /\ pc' = "done"
    /\ UNCHANGED gender

(***************************************************************************)
(* generate_realistic_skin_rgb                                             *)
(***************************************************************************)
base_ranges ==
    "Type I - Very fair" :> << <<240, 255>>, <<220, 240>>, <<200, 225>> >> @@
    "Type II - Fair" :> << <<225, 245>>, <<200, 220>>, <<175, 200>> >> @@
    "Type III - Medium" :> << <<200, 225>>, <<170, 200>>, <<140, 170>> >> @@
    "Type IV - Olive" :> << <<180, 200>>, <<150, 180>>, <<120, 150>> >> @@
    "Type V - Brown" :> << <<150, 180>>, <<120, 150>>, <<90, 120>> >> @@
    "Type VI - Dark brown to black" :> << <<90, 120>>, <<70, 90>>, <<60, 80>> >>

undertone_adjustments ==
    "Cool" :> <<0 - 10, 0, 10>> @@
    "Neutral" :> <<0, 0, 0>> @@
    "Warm" :> <<10, 5, 0 - 10>>

py_max(a, b) == IF a >= b THEN a ELSE b
py_min(a, b) == IF a <= b THEN a ELSE b

\* max(0, min(255, draw + adjustment))
channel_unclamped(draw, adj) == draw + adj

channel(draw, adj) == py_max(0, py_min(255, draw + adj))

\* draw[i] is the random.randint of channel i (1 = r, 2 = g, 3 = b).
generate_realistic_skin_rgb(t, u, draw) ==
    [r |-> channel(draw[1], undertone_adjustments[u][1]),
     g |-> channel(draw[2], undertone_adjustments[u][2]),
     b |-> channel(draw[3], undertone_adjustments[u][3])]

NoRgb == [r |-> 0 - 1, g |-> 0 - 1, b |-> 0 - 1]

RgbIdle == tone = "" /\ undertone = "" /\ rgb_draw = <<>> /\ rgb = NoRgb

RgbInit ==
    /\ tone \in DOMAIN base_ranges
    /\ undertone \in DOMAIN undertone_adjustments
    /\ rgb_draw = <<>>
    /\ rgb = NoRgb

skin_rgb ==
    /\ pc = "call"
    /\ \E dr \in base_ranges[tone][1][1]..base_ranges[tone][1][2],
          dg \in base_ranges[tone][2][1]..base_ranges[tone][2][2],
          db \in base_ranges[tone][3][1]..base_ranges[tone][3][2] :
           /\ rgb_draw' = <<dr, dg, db>>
           /\ rgb' = generate_realistic_skin_rgb(tone, undertone, rgb_draw')
    /\ pc' = "done"
    /\ UNCHANGED <<tone, undertone>>

(***************************************************************************)
(* The analysis endpoints and the face and skin fallback providers         *)
(***************************************************************************)
face_shapes ==
    << <<"Oval", 25>>, <<"Round", 20>>, <<"Square", 15>>, <<"Heart", 15>>,
       <<"Diamond", 10>>, <<"Rectangle", 10>>, <<"Triangle", 5>> >>

fitzpatrick_skin_tones ==
    << <<"Type I - Very fair", 10>>, <<"Type II - Fair", 20>>, <<"Type III - Medium", 30>>,
       <<"Type IV - Olive", 20>>, <<"Type V - Brown", 15>>,
       <<"Type VI - Dark brown to black", 5>> >>

undertones == << <<"Cool", 30>>, <<"Neutral", 40>>, <<"Warm", 30>> >>

NoAnalysis == [op |-> "", status |-> "none", error |-> "", label |-> "", undertone |-> "",
               confidence |-> frac(0, 1), rgb_value |-> NoRgb, using_fallback |-> FALSE]

\* The features (six independent random.uniform draws) are not part of the model.
fallback_face_shape_analysis(k, c) ==
    LET selected == weighted_random_selection(face_shapes, k)
    IN  IF selected.status = "raise"
        THEN [NoAnalysis EXCEPT !.status = "raise", !.error = selected.error]
        ELSE [NoAnalysis EXCEPT !.status = "return", !.label = selected.label,
                                !.confidence = uniform(750, 950, c), !.using_fallback = TRUE]

\* kt and ku are the draws of the two selections, draw the three random.randint draws.
fallback_skin_tone_analysis(kt, ku, c, draw) ==
    LET selected_tone      == weighted_random_selection(fitzpatrick_skin_tones, kt)
        selected_undertone == weighted_random_selection(undertones, ku)
    IN  IF selected_tone.status = "raise"
        THEN [NoAnalysis EXCEPT !.status = "raise", !.error = selected_tone.error]
        ELSE IF selected_undertone.status = "raise"
        THEN [NoAnalysis EXCEPT !.status = "raise", !.error = selected_undertone.error]
        ELSE [NoAnalysis EXCEPT
                 !.status = "return", !.label = selected_tone.label,
                 !.undertone = selected_undertone.label,
                 !.confidence = uniform(750, 950, c),
                 !.rgb_value = generate_realistic_skin_rgb(selected_tone.label,
                                                           selected_undertone.label, draw),
                 !.using_fallback = TRUE]

\* The result of fallback_body_shape_analysis as an analysis outcome.
body_estimate(g, k, c) ==
    LET result == fallback_body_shape_analysis(g, k, c)
    IN  [NoAnalysis EXCEPT !.status = result.status, !.error = result.error,
                           !.label = result.body_type, !.confidence = result.confidence,
                           !.using_fallback = result.using_fallback]

\* `except Exception as e: raise HTTPException(status_code=500, ...)`
http_500(op, result) ==
    IF result.status = "raise"
    THEN [NoAnalysis EXCEPT !.op = op, !.status = "HTTPException", !.error = result.error]
    ELSE [result EXCEPT !.op = op]

\* enhanced_body_analysis is not a module of the repository: the import of main.py:58
\* raises ImportError whenever it is attempted.
ENHANCED_ANALYSIS_AVAILABLE == FALSE

\* The draws of one provider call; the randint draws are the ends of each channel range
\* (the specification of generate_realistic_skin_rgb covers the whole ranges).
ConfDraws == 0..(ConfSteps - 1)
RgbEnds(t) == {<<r, g, b>> : r \in {base_ranges[t][1][1], base_ranges[t][1][2]},
                            g \in {base_ranges[t][2][1], base_ranges[t][2][2]},
                            b \in {base_ranges[t][3][1], base_ranges[t][3][2]}}
RgbEndsAt(kt) == RgbEnds(weighted_random_selection(fitzpatrick_skin_tones, kt).label)

AnalyzeGenders == {PyNone, PyStr(<<>>), PyStr(<<"m">>), PyStr(<<"M","a","l","e">>),
                   PyStr(<<"f","e","m","a","l","e">>)}

AnalyzeIdle == CV2_AVAILABLE = FALSE /\ MODELS_AVAILABLE = FALSE /\ analysis = NoAnalysis

AnalyzeInit ==
    /\ CV2_AVAILABLE \in BOOLEAN
    /\ MODELS_AVAILABLE \in BOOLEAN
    /\ analysis = NoAnalysis

\* POST /analyze/body.  The enhanced branch needs ENHANCED_ANALYSIS_AVAILABLE.
analyze_body ==
    /\ pc = "call"
    /\ ~(CV2_AVAILABLE /\ ENHANCED_ANALYSIS_AVAILABLE /\ MODELS_AVAILABLE)
    /\ \E g \in AnalyzeGenders, k \in Draws, c \in ConfDraws :
           analysis' = http_500("analyze_body", body_estimate(g, k, c))
    /\ pc' = "done"
    /\ UNCHANGED <<CV2_AVAILABLE, MODELS_AVAILABLE>>

\* POST /analyze/face
analyze_face ==
    /\ pc = "call"
    /\ \E k \in Draws, c \in ConfDraws :
           LET result == fallback_face_shape_analysis(k, c)
           IN  IF CV2_AVAILABLE /\ MODELS_AVAILABLE /\ result.status = "return"
               THEN analysis' = [result EXCEPT !.op = "analyze_face", !.using_fallback = FALSE]
               ELSE IF CV2_AVAILABLE /\ MODELS_AVAILABLE
               THEN \E k2 \in Draws, c2 \in ConfDraws :
                        analysis' = http_500("analyze_face", fallback_face_shape_analysis(k2, c2))
               ELSE analysis' = http_500("analyze_face", result)
    /\ pc' = "done"
    /\ UNCHANGED <<CV2_AVAILABLE, MODELS_AVAILABLE>>

\* POST /analyze/skin
analyze_skin ==
    /\ pc = "call"
    /\ \E kt \in Draws, ku \in Draws, c \in ConfDraws :
         \E draw \in RgbEndsAt(kt) :
           LET result == fallback_skin_tone_analysis(kt, ku, c, draw)
           IN  IF CV2_AVAILABLE /\ MODELS_AVAILABLE /\ result.status = "return"
               THEN analysis' = [result EXCEPT !.op = "analyze_skin", !.using_fallback = FALSE]
               ELSE IF CV2_AVAILABLE /\ MODELS_AVAILABLE
               THEN \E kt2 \in Draws, ku2 \in Draws, c2 \in ConfDraws :
                      \E draw2 \in RgbEndsAt(kt2) :
                        analysis' = http_500("analyze_skin",
                                             fallback_skin_tone_analysis(kt2, ku2, c2, draw2))
               ELSE analysis' = http_500("analyze_skin", result)
    /\ pc' = "done"
    /\ UNCHANGED <<CV2_AVAILABLE, MODELS_AVAILABLE>>

(***************************************************************************)
(* check_and_download_models                                               *)
(*                                                                         *)
(* A model path holds nothing ("absent"), a model file that was there      *)
(* before the call ("model"), a completely downloaded file ("downloaded"), *)
(* the beginning of a download that broke off ("partial") or an empty      *)
(* placeholder ("empty").                                                  *)
(***************************************************************************)
ModelPaths == <<"face_shape_Ml/face_shape_model.h5", "body-shape-api/body_shape_model.pkl">>

MODEL_URLS ==
    "face_shape_Ml/face_shape_model.h5" :> "YOUR_CLOUD_STORAGE_URL_FOR_FACE_MODEL" @@
    "body-shape-api/body_shape_model.pkl" :> "YOUR_CLOUD_STORAGE_URL_FOR_BODY_MODEL"

MODEL_URLS_ENV ==
    "face_shape_Ml/face_shape_model.h5" :> "FACE_MODEL_URL" @@
    "body-shape-api/body_shape_model.pkl" :> "BODY_MODEL_URL"

\* An environment variable is unset or holds a URL.
Unset == [set |-> FALSE, value |-> ""]
EnvValue(v) == [set |-> TRUE, value |-> v]
EnvVars == {"FACE_MODEL_URL", "BODY_MODEL_URL"}
EnvValues == {Unset, EnvValue("https://models.example/model"),
              EnvValue("YOUR_CLOUD_STORAGE_URL_FOR_BODY_MODEL")}

\* os.environ.get(env_var, default_url)
environ_get(env_var, default_url) ==
    IF environ[env_var].set THEN environ[env_var].value ELSE default_url

\* os.path.exists(full_path)
path_exists(files, model_path) == files[model_path] # "absent"

\* `with open(full_path, 'wb') as f: pass`
create_empty_skipped(files, model_path) == files

create_empty(files, model_path) == [files EXCEPT ![model_path] = "empty"]

\* What a download can meet: it completes, the request fails before the destination is
\* opened, the stream breaks after the destination was opened, or an error that is not
\* a RequestException is raised (it propagates).
DownloadOutcomes == {"ok", "request_error", "stream_error", "os_error"}

\* download_file(url, destination): the files afterwards and the value returned.
download_file(files, destination, outcome) ==
    CASE outcome = "ok" ->
             [files |-> [files EXCEPT ![destination] = "downloaded"], result |-> "True"]
      [] outcome = "request_error" ->
             [files |-> files, result |-> "False"]
      [] outcome = "stream_error" ->
             [files |-> [files EXCEPT ![destination] = "partial"], result |-> "False"]
      [] outcome = "os_error" ->
             [files |-> files, result |-> "raise"]

\* The list built by the loop of lines 86-95, in the order of MODEL_URLS.
missing_entry(model_path) == <<model_path, environ_get(MODEL_URLS_ENV[model_path], MODEL_URLS[model_path])>>
found_missing ==
    LET absent == SelectSeq(ModelPaths, LAMBDA model_path : ~path_exists(fs, model_path))
    IN  [i \in 1..Len(absent) |-> missing_entry(absent[i])]

no_url_configured(url) ==
    url = "YOUR_CLOUD_STORAGE_URL_FOR_FACE_MODEL" \/ url = "YOUR_CLOUD_STORAGE_URL_FOR_BODY_MODEL"

DownloadIdle ==
    /\ USE_FALLBACK = TRUE
    /\ environ = [v \in EnvVars |-> Unset]
    /\ fs = [i \in {} |-> "absent"]
    /\ missing_models = <<>>
    /\ returned = "none"
    /\ download_log = <<>>

DownloadInit ==
    /\ USE_FALLBACK \in BOOLEAN
    /\ environ \in [EnvVars -> EnvValues]
    /\ fs \in [{ModelPaths[i] : i \in 1..Len(ModelPaths)} -> {"absent", "model"}]
    /\ missing_models = <<>>
    /\ returned = "none"
    /\ download_log = <<>>

\* Lines 76-95: the models that are not on disk.
check_models ==
    /\ pc = "check"
    /\ missing_models' = found_missing
    /\ pc' = "download"
    /\ UNCHANGED <<USE_FALLBACK, environ, fs, returned, download_log, MODELS_AVAILABLE>>

\* One iteration of the loop of lines 101-123, with no URL configured for the model.
skip_download ==
    /\ pc = "download"
    /\ missing_models # <<>>
    /\ no_url_configured(Head(missing_models)[2])
    /\ fs' = IF USE_FALLBACK THEN create_empty(fs, Head(missing_models)[1]) ELSE fs
    /\ missing_models' = Tail(missing_models)
    /\ UNCHANGED <<pc, USE_FALLBACK, environ, returned, download_log, MODELS_AVAILABLE>>

\* One iteration of the loop of lines 101-123, with a URL to download from; `return
\* False` makes `MODELS_AVAILABLE = check_and_download_models()` of main.py False.
download_model ==
    /\ pc = "download"
    /\ missing_models # <<>>
    /\ ~no_url_configured(Head(missing_models)[2])
    /\ \E outcome \in DownloadOutcomes :
         LET model_path == Head(missing_models)[1]
             url        == Head(missing_models)[2]
             success    == download_file(fs, model_path, outcome)
         IN  /\ download_log' = Append(download_log, [model_path |-> model_path, url |-> url,
                                                       result |-> success.result])
             /\ CASE success.result = "True" ->
                        /\ fs' = success.files
                        /\ missing_models' = Tail(missing_models)
                        /\ UNCHANGED <<pc, returned, MODELS_AVAILABLE>>
                  [] success.result = "False" /\ USE_FALLBACK ->
                        /\ fs' = create_empty(success.files, model_path)
                        /\ missing_models' = Tail(missing_models)
                        /\ UNCHANGED <<pc, returned, MODELS_AVAILABLE>>
                  [] success.result = "False" /\ ~USE_FALLBACK ->
                        /\ fs' = success.files
                        /\ returned' = "False"
                        /\ MODELS_AVAILABLE' = FALSE
                        /\ pc' = "done"
                        /\ UNCHANGED missing_models
                  [] success.result = "raise" ->
                        /\ fs' = success.files
                        /\ returned' = "raise"
                        /\ pc' = "done"
                        /\ UNCHANGED <<missing_models, MODELS_AVAILABLE>>
    /\ UNCHANGED <<USE_FALLBACK, environ>>

\* Line 125, and `MODELS_AVAILABLE = check_and_download_models()` of main.py.
return_true ==
    /\ pc = "download"
    /\ missing_models = <<>>
    /\ returned' = "True"
    /\ MODELS_AVAILABLE' = TRUE
    /\ pc' = "done"
    /\ UNCHANGED <<USE_FALLBACK, environ, fs, missing_models, download_log>>

(***************************************************************************)
(* Specifications                                                          *)
(***************************************************************************)
RecNext == generate_recommendation /\ UNCHANGED <<productVars, samplerVars, bodyVars, rgbVars, analyzeVars, downloadVars>>

InitRec ==
    /\ pc = "call"
    /\ RecInit
    /\ ProductIdle
    /\ SamplerIdle
    /\ BodyIdle
    /\ RgbIdle
    /\ AnalyzeIdle
    /\ DownloadIdle

SpecRec == InitRec /\ [][RecNext]_vars

FilterNext ==
    /\ pc = "call"
    /\ filter_products
    /\ pc' = "done"
    /\ UNCHANGED <<recVars, samplerVars, bodyVars, rgbVars, analyzeVars, downloadVars>>

InitFilter ==
    /\ pc = "call"
    /\ RecIdle
    /\ load_products(Catalogs)
    /\ SamplerIdle
    /\ BodyIdle
    /\ RgbIdle
    /\ AnalyzeIdle
    /\ DownloadIdle

SpecFilter == InitFilter /\ [][FilterNext]_vars

serveVars == <<pc, recVars, samplerVars, bodyVars, rgbVars, analyzeVars, downloadVars>>

ProductNext ==
    \/ filter_products /\ UNCHANGED serveVars
    \/ \E r \in Requests : product_recommendations_await(r) /\ UNCHANGED serveVars
    \/ \E r \in Requests : product_recommendations(r) /\ UNCHANGED serveVars
    \/ get_products /\ UNCHANGED serveVars

InitProducts ==
    /\ pc = "serve"
    /\ RecIdle
    /\ load_products(SharedCatalogs)
    /\ SamplerIdle
    /\ BodyIdle
    /\ RgbIdle
    /\ AnalyzeIdle
    /\ DownloadIdle

SpecProducts == InitProducts /\ [][ProductNext]_vars

SamplerNext == select /\ UNCHANGED <<recVars, productVars, bodyVars, rgbVars, analyzeVars, downloadVars>>

InitSampler ==
    /\ pc = "call"
    /\ RecIdle
    /\ ProductIdle
    /\ SamplerInit
    /\ BodyIdle
    /\ RgbIdle
    /\ AnalyzeIdle
    /\ DownloadIdle

SpecSampler == InitSampler /\ [][SamplerNext]_vars

BodyNext == body_analysis /\ UNCHANGED <<recVars, productVars, samplerVars, rgbVars, analyzeVars, downloadVars>>

InitBody ==
    /\ pc = "call"
    /\ RecIdle
    /\ ProductIdle
    /\ SamplerIdle
    /\ BodyInit
    /\ RgbIdle
    /\ AnalyzeIdle
    /\ DownloadIdle

SpecBody == InitBody /\ [][BodyNext]_vars

RgbNext == skin_rgb /\ UNCHANGED <<recVars, productVars, samplerVars, bodyVars, analyzeVars, downloadVars>>

InitRgb ==
    /\ pc = "call"
    /\ RecIdle
    /\ ProductIdle
    /\ SamplerIdle
    /\ BodyIdle
    /\ RgbInit
    /\ AnalyzeIdle
    /\ DownloadIdle

SpecRgb == InitRgb /\ [][RgbNext]_vars

\* One product_recommendations request, from its arrival to its response.
PageNext ==
    \/ /\ pc = "call"
       /\ \E r \in Requests : product_recommendations_await(r)
       /\ UNCHANGED serveVars
    \/ /\ pc = "call"
       /\ \E r \in Requests : product_recommendations(r)
       /\ pc' = "done"
       /\ UNCHANGED <<recVars, samplerVars, bodyVars, rgbVars, analyzeVars, downloadVars>>

InitPage ==
    /\ pc = "call"
    /\ RecIdle
    /\ load_products(PageCatalogs)
    /\ SamplerIdle
    /\ BodyIdle
    /\ RgbIdle
    /\ AnalyzeIdle
    /\ DownloadIdle

SpecPage == InitPage /\ [][PageNext]_vars

AnalyzeNext ==
    \/ analyze_body /\ UNCHANGED <<recVars, productVars, samplerVars, bodyVars, rgbVars, downloadVars>>
    \/ analyze_face /\ UNCHANGED <<recVars, productVars, samplerVars, bodyVars, rgbVars, downloadVars>>
    \/ analyze_skin /\ UNCHANGED <<recVars, productVars, samplerVars, bodyVars, rgbVars, downloadVars>>

InitAnalyze ==
    /\ pc = "call"
    /\ RecIdle
    /\ ProductIdle
    /\ SamplerIdle
    /\ BodyIdle
    /\ RgbIdle
    /\ AnalyzeInit
    /\ DownloadIdle

SpecAnalyze == InitAnalyze /\ [][AnalyzeNext]_vars

startVars == <<recVars, productVars, samplerVars, bodyVars, rgbVars, CV2_AVAILABLE, analysis>>

DownloadNext ==
    \/ check_models /\ UNCHANGED startVars
    \/ skip_download /\ UNCHANGED startVars
    \/ download_model /\ UNCHANGED startVars
    \/ return_true /\ UNCHANGED startVars

InitDownload ==
    /\ pc = "check"
    /\ RecIdle
    /\ ProductIdle
    /\ SamplerIdle
    /\ BodyIdle
    /\ RgbIdle
    /\ AnalyzeIdle
    /\ DownloadInit

SpecDownload == InitDownload /\ [][DownloadNext]_vars

(***************************************************************************)
(* Properties                                                              *)
(***************************************************************************)
Range(seq) == {seq[i] : i \in 1..Len(seq)}

\* The same items with the same multiplicities, in any order.
IsPermutation(a, b) ==
    /\ Len(a) = Len(b)
    /\ \A x \in Range(a) \cup Range(b) :
           Cardinality({i \in 1..Len(a) : a[i] = x}) = Cardinality({i \in 1..Len(b) : b[i] = x})

\* Two characters that are equal or the two cases of one letter.
SameLetter(c, d) ==
    \/ c = d
    \/ \E i \in 1..Len(UpperChars) : {c, d} = {UpperChars[i], LowerChars[i]}

CaseInsensitiveEqual(a, b) ==
    /\ Len(a) = Len(b)
    /\ \A i \in 1..Len(a) : SameLetter(a[i], b[i])

\* sub occurs in s at some position.
Occurs(sub, s) ==
    \E i \in 1..Len(s) :
        /\ i + Len(sub) - 1 <= Len(s)
        /\ \A j \in 1..Len(sub) : s[i + j - 1] = sub[j]

\* ---- C1
MatchingProducts == SelectSeq(PRODUCTS, LAMBDA p : CaseInsensitiveEqual(p.gender, response.gender))

\* C1: the result of filter_products is a permutation of the products whose gender
\* case-insensitively equals the given gender when a gender is given and at least 3
\* products match, and otherwise a permutation of the whole catalog; so it never has
\* fewer than min(3, size of the catalog) items.
C1_FilterIsPermutation ==
    (pc = "done" /\ response.op = "filter_products") =>
        /\ IF response.gender # <<>> /\ Len(MatchingProducts) >= 3
           THEN IsPermutation(response.products, MatchingProducts)
           ELSE IsPermutation(response.products, PRODUCTS)
        /\ Len(response.products) >= (IF Len(PRODUCTS) < 3 THEN Len(PRODUCTS) ELSE 3)

\* 3 of 4 products match a gender given in another case: exactly those 3, reordered.
C1_Witness ==
    /\ pc = "done" /\ response.op = "filter_products"
    /\ response.gender = <<"M","A","L","E">>
    /\ Len(PRODUCTS) = 4
    /\ Len(MatchingProducts) = 3
    /\ Len(response.products) = 3
    /\ response.products # MatchingProducts

\* ---- C2
\* C2: whatever the interleaving of filter_products, product_recommendations and
\* get_products calls, no step changes the elements or the order of PRODUCTS.
C2_CatalogNeverMutated == [][PRODUCTS' = PRODUCTS]_vars

\* A product_recommendations returned a reordered catalog while another is suspended.
C2_Witness ==
    /\ response.op = "product_recommendations"
    /\ \E r \in Requests : inflight[r]
    /\ Len(PRODUCTS) = 3
    /\ IsPermutation(response.products, PRODUCTS)
    /\ response.products # PRODUCTS

\* ---- C3
SkinFragments == {fair_skin, medium_skin, olive_skin, deep_skin}
SkinParts == Range(parts) \cap SkinFragments

\* C3: for a non-empty skin tone the skin fragment is the one of the first test that
\* succeeds in the order "I" (or "II"), "III", "IV", else darkest, on the raw string;
\* so every string containing the character "I" yields the fair-skin fragment.
C3_SkinFirstMatch ==
    (pc = "done" /\ skin_tone # <<>>) =>
        /\ SkinParts =
             {IF Occurs(<<"I">>, skin_tone) \/ Occurs(<<"I","I">>, skin_tone) THEN fair_skin
              ELSE IF Occurs(<<"I","I","I">>, skin_tone) THEN medium_skin
              ELSE IF Occurs(<<"I","V">>, skin_tone) THEN olive_skin
              ELSE deep_skin}
        /\ (\E i \in 1..Len(skin_tone) : skin_tone[i] = "I") => SkinParts = {fair_skin}
        /\ (\A i \in 1..Len(skin_tone) : skin_tone[i] # "I") => SkinParts = {deep_skin}

\* "Type III - Medium" yields the fair-skin fragment.
C3_Witness ==
    /\ pc = "done"
    /\ skin_tone = TypeIII
    /\ SkinParts = {fair_skin}

\* ---- C4
\* C4: for the labels the skin provider emits for Types V and VI the recommendation
\* includes the darkest-skin fragment and not the fair, medium or olive fragment.
C4_DarkestForTypesVAndVI ==
    (pc = "done" /\ skin_tone \in {TypeV, TypeVI}) => SkinParts = {deep_skin}

\* ---- C5
\* C5: with an empty table, or a table whose weights sum to a value <= 0, the call
\* fails with InvalidWeightsError and with no other kind of error, and returns no label.
C5_InvalidWeightsError ==
    (pc = "done" /\ (items_with_weights = <<>>
                     \/ sum([i \in 1..Len(items_with_weights) |-> items_with_weights[i][2]]) <= 0)) =>
        /\ selection.status = "raise"
        /\ selection.error = "InvalidWeightsError"
        /\ selection.label = ""

\* ---- C6
ValidTable(t) == t # <<>> /\ \A i \in 1..Len(t) : t[i][2] > 0

\* C6: for a non-empty table whose weights are all positive the call returns, for every
\* draw, a label present in the table, and leaves the table's entries and their order
\* as they were.
C6_LabelFromTable ==
    [][(pc = "call" /\ ValidTable(items_with_weights)) =>
           /\ selection'.status = "return"
           /\ \E i \in 1..Len(items_with_weights) : selection'.label = items_with_weights[i][1]
           /\ items_with_weights' = items_with_weights]_vars

\* The last entry of a table of several positive weights is drawn.
C6_Witness ==
    /\ pc = "done"
    /\ ValidTable(items_with_weights)
    /\ Len(items_with_weights) >= 2
    /\ items_with_weights[1][1] # items_with_weights[Len(items_with_weights)][1]
    /\ selection.status = "return"
    /\ selection.label = items_with_weights[Len(items_with_weights)][1]

\* ---- C7, C8
MaleLabels   == {"Trapezoid", "Rectangle", "Triangle", "Oval", "Inverted Triangle"}
FemaleLabels == {"Hourglass", "Rectangle", "Pear", "Apple", "Inverted Triangle"}

IsMaleGender(g) ==
    \/ CaseInsensitiveEqual(g, <<"m","a","l","e">>)
    \/ CaseInsensitiveEqual(g, <<"m">>)

\* C7: fallback_body_shape_analysis returns a result for every gender input, a missing
\* (null) one and an unrecognized string included, and for a missing or unrecognized
\* gender the body_type is a label of the female table.
C7_BodyNeverFails ==
    pc = "done" =>
        /\ body_result.status = "return"
        /\ (gender.type # "str" \/ ~IsMaleGender(gender.value)) =>
               body_result.body_type \in FemaleLabels

\* C8: for a gender string the body_type is a label of the male table exactly when the
\* string, compared case-insensitively, is "male" or "m", and a label of the female
\* table for every other string.
C8_TableByGender ==
    (pc = "done" /\ gender.type = "str") =>
        /\ body_result.status = "return"
        /\ IsMaleGender(gender.value) => body_result.body_type \in MaleLabels
        /\ ~IsMaleGender(gender.value) => body_result.body_type \in FemaleLabels

\* "MALE" draws Trapezoid.
C8_Witness ==
    /\ pc = "done"
    /\ gender = PyStr(<<"M","A","L","E">>)
    /\ body_result.body_type = "Trapezoid"

\* ---- C9
ClaimedAdjustment(u) ==
    CASE u = "Cool" -> <<0 - 10, 0, 10>>
      [] u = "Neutral" -> <<0, 0, 0>>
      [] u = "Warm" -> <<10, 5, 0 - 10>>

Clamped(x) == LET low == IF x > 0 THEN x ELSE 0 IN IF low < 255 THEN low ELSE 255

\* C9: each channel equals min(255, max(0, draw + the undertone's adjustment for the
\* channel)), so r, g and b are integers in 0..255.
C9_ChannelsClamped ==
    pc = "done" =>
        /\ rgb.r = Clamped(rgb_draw[1] + ClaimedAdjustment(undertone)[1])
        /\ rgb.g = Clamped(rgb_draw[2] + ClaimedAdjustment(undertone)[2])
        /\ rgb.b = Clamped(rgb_draw[3] + ClaimedAdjustment(undertone)[3])
        /\ {rgb.r, rgb.g, rgb.b} \subseteq 0..255

\* Type I with Warm: a red draw of 250 plus 10 is clamped to 255.
C9_Witness ==
    /\ pc = "done"
    /\ tone = "Type I - Very fair" /\ undertone = "Warm"
    /\ rgb_draw[1] = 250
    /\ rgb.r = 255

\* ---- C10
BodyFragments == {body_recs[k] : k \in DOMAIN body_recs} \cup {body_default}
FaceFragments == {face_recs[k] : k \in DOMAIN face_recs} \cup {face_default}

MbtiCode == Text(str_upper(mbti))
PersonalityIncluded == mbti # <<>> /\ MbtiCode \in DOMAIN PERSONALITY_STYLES

\* The fragments separated by exactly one space.
OneSpaced(fragments) ==
    CASE Len(fragments) = 1 -> fragments[1]
      [] Len(fragments) = 2 -> fragments[1] \o " " \o fragments[2]
      [] Len(fragments) = 3 -> fragments[1] \o " " \o fragments[2] \o " " \o fragments[3]
      [] Len(fragments) = 4 -> fragments[1] \o " " \o fragments[2] \o " " \o fragments[3] \o " " \o fragments[4]

\* C10: the text is a body fragment, a face fragment, a skin fragment and the
\* personality fragment, in this order, each present only for a non-empty input (the
\* personality one only when the uppercased mbti is one of the 16 codes), joined by
\* exactly one space.
C10_FragmentOrder ==
    pc = "done" =>
        \E b \in (IF body_type # <<>> THEN BodyFragments ELSE {""}),
           f \in (IF face_shape # <<>> THEN FaceFragments ELSE {""}),
           s \in (IF skin_tone # <<>> THEN SkinFragments ELSE {""}),
           p \in (IF PersonalityIncluded
                  THEN {"Your " \o MbtiCode \o " personality suggests: " \o PERSONALITY_STYLES[MbtiCode]}
                  ELSE {""}) :
            LET included == SelectSeq(<<b, f, s, p>>, LAMBDA x : x # "")
            IN  included # <<>> => full_rec = OneSpaced(included)

\* compose("hourglass", "Oval", "INTJ", "Type II - Fair"): four fragments.
C10_Witness ==
    /\ pc = "done"
    /\ body_type = <<"h","o","u","r","g","l","a","s","s">>
    /\ face_shape = <<"O","v","a","l">>
    /\ mbti = <<"I","N","T","J">>
    /\ skin_tone = TypeII
    /\ Len(parts) = 4
    /\ full_rec = body_recs["hourglass"] \o " " \o face_recs["oval"] \o " " \o fair_skin \o " "
                  \o "Your INTJ personality suggests: " \o PERSONALITY_STYLES["INTJ"]

\* ---- C11
MbtiCodes ==
    {"ISTJ", "ISFJ", "INFJ", "INTJ", "ISTP", "ISFP", "INFP", "INTP",
     "ESTP", "ESFP", "ENFP", "ENTP", "ESTJ", "ESFJ", "ENFJ", "ENTJ"}

\* C11: when body type, face shape and skin tone are empty and the mbti is empty or,
\* uppercased, none of the 16 codes, the call returns exactly the generic message.
C11_GenericMessage ==
    (/\ pc = "done"
     /\ body_type = <<>> /\ face_shape = <<>> /\ skin_tone = <<>>
     /\ (mbti = <<>> \/ MbtiCode \notin MbtiCodes)) =>
        full_rec = "Based on your unique characteristics, we recommend exploring styles that express your individuality while enhancing your natural features. Consider consulting with a personal stylist for more tailored advice."

\* The only input is an mbti that is no code: the generic message.
C11_Witness ==
    /\ pc = "done"
    /\ body_type = <<>> /\ face_shape = <<>> /\ skin_tone = <<>>
    /\ mbti = <<"a","b","c","d">>
    /\ parts = <<>>
    /\ full_rec = generic_rec

\* ---- C12
BodyKeys == {"hourglass", "rectangle", "triangle", "inverted triangle", "oval"}
FaceKeys == {"oval", "round", "square", "heart", "diamond", "rectangle"}

UnknownBody == body_type # <<>> /\ Text(str_lower(body_type)) \notin BodyKeys
UnknownFace == face_shape # <<>> /\ Text(str_lower(face_shape)) \notin FaceKeys

\* C12: a non-empty body type that, lowercased, is no body-table key yields exactly the
\* generic body fragment, a non-empty face shape that is no face-table key exactly the
\* generic face fragment; with every other input empty the result is that fragment alone.
C12_GenericFragments ==
    pc = "done" =>
        /\ UnknownBody =>
               /\ parts[1] = "Choose styles that enhance your unique body shape."
               /\ (face_shape = <<>> /\ skin_tone = <<>> /\ mbti = <<>>) =>
                      full_rec = "Choose styles that enhance your unique body shape."
        /\ UnknownFace =>
               /\ parts[IF body_type = <<>> THEN 1 ELSE 2] =
                      "Select necklines and accessories that complement your face shape."
               /\ (body_type = <<>> /\ skin_tone = <<>> /\ mbti = <<>>) =>
                      full_rec = "Select necklines and accessories that complement your face shape."

\* An unknown body type alone: the generic body fragment and nothing else.
C12_Witness ==
    /\ pc = "done"
    /\ body_type = <<"p","e","a","r">>
    /\ face_shape = <<>> /\ skin_tone = <<>> /\ mbti = <<>>
    /\ full_rec = body_default

\* ---- C15
\* The sequence filter_products shuffles for the gender of the response.
FilteredForResponse ==
    IF response.gender # <<>> /\ Len(MatchingProducts) >= 3 THEN MatchingProducts ELSE PRODUCTS

\* C15: in the product_recommendations response, products is the first min(6, n) items
\* of a reordering of the filtered sequence of length n (never more than 6 items), and
\* count is n.
C15_PageAndCount ==
    response.op = "product_recommendations" =>
        /\ response.count = Len(FilteredForResponse)
        /\ Len(response.products) = (IF response.count < 6 THEN response.count ELSE 6)
        /\ \A i \in 1..Len(response.products) : response.products[i] \in Range(FilteredForResponse)
        /\ \A i, j \in 1..Len(response.products) :
               i # j => response.products[i].id # response.products[j].id

\* 7 products are filtered and 6 are returned.
C15_Witness ==
    /\ response.op = "product_recommendations"
    /\ response.count = 7
    /\ Len(response.products) = 6

\* ---- C13
\* C13: every face and skin result the fallback provider produced is returned with
\* using_fallback = TRUE, whatever CV2_AVAILABLE and MODELS_AVAILABLE are.  Both
\* branches of analyze_face and of analyze_skin obtain their result from the fallback
\* provider.  Violated when both flags are TRUE.
C13_FallbackFlagged ==
    (/\ pc = "done"
     /\ analysis.op \in {"analyze_face", "analyze_skin"}
     /\ analysis.status = "return") => analysis.using_fallback = TRUE

\* ---- C14
ConfidenceWithin(lo, hi) ==
    /\ ~frac_less(analysis.confidence, frac(lo, 100))
    /\ ~frac_less(frac(hi, 100), analysis.confidence)

\* C14: the confidence of a returned estimate is within [0.75, 0.95] for face and skin
\* and within [0.80, 0.95] for body, under either gender table.
C14_ConfidenceRange ==
    (pc = "done" /\ analysis.status = "return") =>
        /\ analysis.op = "analyze_face" => ConfidenceWithin(75, 95)
        /\ analysis.op = "analyze_body" => ConfidenceWithin(80, 95)
        /\ analysis.op = "analyze_skin" => ConfidenceWithin(75, 95)

\* A body estimate from the male table whose confidence is above the lower end.
C14_Witness ==
    /\ pc = "done"
    /\ analysis.op = "analyze_body"
    /\ analysis.status = "return"
    /\ analysis.label = "Trapezoid"
    /\ frac_less(frac(80, 100), analysis.confidence)

\* ---- C16
FailedDownload(entry) == entry.result = "False" /\ ~no_url_configured(entry.url)

\* C16: while USE_FALLBACK is TRUE a run that returns returns True, and every model path
\* then holds a file (one that was there, a downloaded one or an empty placeholder);
\* False is returned only with USE_FALLBACK FALSE and right after a download from a
\* configured URL failed.
C16_FallbackAlwaysAvailable ==
    /\ (USE_FALLBACK /\ returned \in {"True", "False"}) =>
           /\ returned = "True"
           /\ MODELS_AVAILABLE = TRUE
           /\ \A i \in 1..Len(ModelPaths) : fs[ModelPaths[i]] \in {"model", "downloaded", "empty"}
    /\ returned = "False" =>
           /\ ~USE_FALLBACK
           /\ download_log # <<>>
           /\ FailedDownload(download_log[Len(download_log)])

\* With USE_FALLBACK TRUE the call returned True after one model was downloaded and the
\* download of the other broke off: its path holds an empty placeholder.
C16_Witness ==
    /\ USE_FALLBACK
    /\ returned = "True"
    /\ \E i \in 1..Len(download_log) : download_log[i].result = "False"
    /\ \E i \in 1..Len(download_log) : download_log[i].result = "True"
    /\ \E i \in 1..Len(ModelPaths) : fs[ModelPaths[i]] = "empty"

====
